---- MODULE Spec2Model ----
(***************************************************************************)
(* The diet problem script (src/diet_problem.py): a linear program is      *)
(* built once, solved, reported, edited in place (right-hand sides, one    *)
(* objective coefficient) and re-solved.                                   *)
(*                                                                         *)
(* The script's state is the solver session `problem`: its objective       *)
(* coefficients, its right-hand sides and its current solution, plus the   *)
(* position of the script and what it has printed.                         *)
(*                                                                         *)
(* problem.solve() is a call into the LP solver.  It is modelled by what   *)
(* it returns for a bounded, feasible LP: an optimal basic solution with   *)
(* its dual values and reduced costs.  The model finds it by examining     *)
(* every basic solution of the LP in exact rational arithmetic (the        *)
(* solver's floating-point rounding is not modelled).                      *)
(***************************************************************************)
EXTENDS Integers, Sequences, FiniteSets, TLC

VARIABLES
    pc,         \* source line of the statement the script executes next
    i,          \* loop variable of the report loop in progress (0-based)
    objective,  \* problem.objective: the linear objective coefficients
    rhs,        \* problem.linear_constraints: the right-hand sides
    cand,       \* solver: index of the next set of basic variables to examine
    best,       \* solver: the incumbent optimal bases
    solution,   \* problem.solution: the outcome of the last solve
    modified,   \* the problem was edited since the last completed solve
    out         \* standard output: the solution quantities printed so far

vars == <<pc, i, objective, rhs, cand, best, solution, modified, out>>

----------------------------------------------------------------------------
(* The model data, lines 46-83.                                            *)

objective_sense == "minimize"

v_names == <<"x_1", "x_2", "x_3", "x_4", "x_5", "x_6">>

v_lower_bounds == <<0, 0, 0, 0, 0, 0>>

\* mutant: whole milk capped at 4 servings instead of 8
Mutant_UpperBounds_Milk4 == <<4, 3, 2, 4, 2, 2>>

v_upper_bounds == <<4, 3, 2, 8, 2, 2>>

\* mutant: the prices of eggs and whole milk swapped
Mutant_Prices_Swapped == <<3, 24, 9, 13, 20, 19>>

v_objective_coefficients == <<3, 24, 13, 9, 20, 19>>

c_names == <<"c_1", "c_2", "c_3">>

\* mutant: the energy of whole milk mistyped
Mutant_c1_MilkEnergy == <<110, 205, 160, 150, 420, 260>>

c1_lhs_coefficients == <<110, 205, 160, 160, 420, 260>>

c2_lhs_coefficients == <<4, 32, 13, 8, 4, 14>>

c3_lhs_coefficients == <<2, 12, 54, 285, 22, 80>>

c_rhs == <<2000, 55, 800>>

c_senses == <<"G", "G", "G">>

\* lin_expr of linear_constraints.add: one row per constraint
lin_expr == <<c1_lhs_coefficients, c2_lhs_coefficients, c3_lhs_coefficients>>

\* problem.variables.get_num() and problem.linear_constraints.get_num()
NumVars == Len(v_names)

NumRows == Len(c_names)

\* a name ("x_3", "c_1") resolved to its 1-based index
IndexOf(names, n) == CHOOSE k \in 1..Len(names) : names[k] = n

----------------------------------------------------------------------------
(* Exact rational numbers <<n, d>>, d > 0, in lowest terms.                *)

Abs(a) == IF a < 0 THEN -a ELSE a

RECURSIVE GCD(_, _)
GCD(a, b) == IF b = 0 THEN a ELSE GCD(b, a % b)

Rat(n, d) ==
    LET s == IF d < 0 THEN -1 ELSE 1
        g == GCD(Abs(n), Abs(d))
    IN  <<(s * n) \div g, (s * d) \div g>>

\* a/b < c/d for b, d > 0, by comparing the continued fractions: no product
\* of a numerator with a denominator is formed
RECURSIVE FracLess(_, _, _, _)
FracLess(a, b, c, d) ==
    LET qa == a \div b
        qc == c \div d
        ra == a % b
        rc == c % d
    IN  IF qa # qc THEN qa < qc
        ELSE IF rc = 0 THEN FALSE
        ELSE IF ra = 0 THEN TRUE
        ELSE FracLess(d, rc, b, ra)

RatLess(p, q) == FracLess(p[1], p[2], q[1], q[2])

----------------------------------------------------------------------------
(* Linear algebra on integer vectors and small square matrices.            *)

RECURSIVE SumTo(_, _)
SumTo(f, n) == IF n = 0 THEN 0 ELSE f[n] + SumTo(f, n - 1)

Dot(a, b) == SumTo([k \in 1..Len(a) |-> a[k] * b[k]], Len(a))

RemoveAt(s, j) == [q \in 1..(Len(s) - 1) |-> IF q < j THEN s[q] ELSE s[q + 1]]

Minor(M, j) == [p \in 1..(Len(M) - 1) |-> RemoveAt(M[p + 1], j)]

\* determinant by expansion along the first row
RECURSIVE Det(_)
Det(M) ==
    IF Len(M) = 0 THEN 1
    ELSE SumTo([j \in 1..Len(M) |->
                   (IF j % 2 = 1 THEN 1 ELSE -1) * M[1][j] * Det(Minor(M, j))],
               Len(M))

ReplaceCol(M, q, r) ==
    [p \in 1..Len(M) |-> [c \in 1..Len(M) |-> IF c = q THEN r[p] ELSE M[p][c]]]

Transpose(M) == [q \in 1..Len(M) |-> [p \in 1..Len(M) |-> M[p][q]]]

RECURSIVE Pow(_, _)
Pow(b, e) == IF e = 0 THEN 1 ELSE b * Pow(b, e - 1)

\* the elements of a set of integers in increasing order
RECURSIVE Sorted(_)
Sorted(S) ==
    IF S = {} THEN <<>>
    ELSE LET m == CHOOSE x \in S : \A y \in S : x <= y
         IN  <<m>> \o Sorted(S \ {m})

PosIn(s, x) == CHOOSE q \in 1..Len(s) : s[q] = x

---------------------------------------------------------------------------------------------------------------------------------------------------
(* problem.solve(), lines 92, 145, 158, 172 and 201.                       *)
(*                                                                         *)
(* A basic solution of the LP makes some variables basic, fixes every      *)
(* other variable at its lower or its upper bound, and takes as many       *)
(* constraints tight as there are basic variables; the basic variables     *)
(* are then determined by the tight rows.  An LP over a bounded box        *)
(* attains its optimum at a basic feasible solution, so examining every    *)
(* basic solution finds the optimum.  The solver may return any optimal    *)
(* basic solution.                                                         *)

Vars == 1..NumVars

Rows == 1..NumRows

\* the sets of basic variables are examined in the order of their bit masks
NumBasicSets == Pow(2, NumVars)

BasicSet(k) == {j \in Vars : (k \div Pow(2, j - 1)) % 2 = 1}

\* every basic solution whose basic variables are S
BasesOver(S) ==
    {[basic |-> S, tight |-> T, upper |-> U] :
        T \in {R \in SUBSET Rows : Cardinality(R) = Cardinality(S)},
        U \in SUBSET (Vars \ S)}

\* the value of every nonbasic variable (a basic one counts 0 here)
FixedAt(bs) ==
    [j \in Vars |->
        IF j \in bs.basic THEN 0
        ELSE IF j \in bs.upper THEN v_upper_bounds[j]
        ELSE v_lower_bounds[j]]

\* the tight rows restricted to the basic columns
BasisMatrix(bs) ==
    LET B == Sorted(bs.basic)
        T == Sorted(bs.tight)
    IN  [p \in 1..Len(T) |-> [q \in 1..Len(B) |-> lin_expr[T[p]][B[q]]]]

\* the basic solution by Cramer's rule, as numerators over one denominator
Primal(bs, b) ==
    LET B == Sorted(bs.basic)
        T == Sorted(bs.tight)
        M == BasisMatrix(bs)
        D == Det(M)
        s == IF D < 0 THEN -1 ELSE 1
        fixed == FixedAt(bs)
        r == [p \in 1..Len(T) |-> b[T[p]] - Dot(lin_expr[T[p]], fixed)]
    IN  [den  |-> s * D,
         xnum |-> [j \in Vars |->
                     s * (IF j \in bs.basic
                          THEN Det(ReplaceCol(M, PosIn(B, j), r))
                          ELSE fixed[j] * D)]]

\* a constraint row of sense G, L or E holds between lhs and rhs
RowHolds(sense, lhs, rh) ==
    IF sense = "G" THEN lhs >= rh
    ELSE IF sense = "L" THEN lhs <= rh
    ELSE lhs = rh

Feasible(bs, b) ==
    /\ Det(BasisMatrix(bs)) # 0
    /\ LET x == Primal(bs, b)
       IN  /\ \A j \in Vars :
                 /\ v_lower_bounds[j] * x.den <= x.xnum[j]
                 /\ x.xnum[j] <= v_upper_bounds[j] * x.den
           /\ \A r \in Rows :
                 RowHolds(c_senses[r], Dot(lin_expr[r], x.xnum), b[r] * x.den)

Cost(bs, c, b) ==
    LET x == Primal(bs, b) IN Rat(Dot(c, x.xnum), x.den)

\* objective.set_sense, line 46
Better(p, q) ==
    IF objective_sense = "minimize" THEN RatLess(p, q) ELSE RatLess(q, p)

\* the dual values y of the basis: y is 0 on slack rows and solves
\* y * BasisMatrix = c restricted to the basic columns on the tight rows
DualNum(bs, c) ==
    LET B == Sorted(bs.basic)
        T == Sorted(bs.tight)
        Mt == Transpose(BasisMatrix(bs))
        cB == [q \in 1..Len(B) |-> c[B[q]]]
    IN  [r \in Rows |->
            IF r \in bs.tight THEN Det(ReplaceCol(Mt, PosIn(T, r), cB)) ELSE 0]

DualValues(bs, c) ==
    LET D == Det(BasisMatrix(bs))
        y == DualNum(bs, c)
    IN  [r \in Rows |-> Rat(y[r], D)]

\* the reduced cost of x_j: c_j - y * (column j)
ReducedCosts(bs, c) ==
    LET D == Det(BasisMatrix(bs))
        y == DualNum(bs, c)
    IN  [j \in Vars |->
            Rat(c[j] * D
                  - SumTo([r \in Rows |-> y[r] * lin_expr[r][j]], NumRows),
                D)]

\* the incumbent: the best cost met so far and every basis that attains it
NoIncumbent == [found |-> FALSE, cost |-> Rat(0, 1), bases |-> {}]

\* the incumbent after the basic solutions over S have been examined
Examine(inc, S, c, b) ==
    LET F == {bs \in BasesOver(S) : Feasible(bs, b)}
        m == CHOOSE bs \in F : \A o \in F : ~Better(Cost(o, c, b), Cost(bs, c, b))
        mc == Cost(m, c, b)
        ties == {bs \in F : Cost(bs, c, b) = mc}
    IN  IF F = {} THEN inc
        ELSE IF ~inc.found \/ Better(mc, inc.cost)
        THEN [found |-> TRUE, cost |-> mc, bases |-> ties]
        ELSE IF mc = inc.cost
        THEN [inc EXCEPT !.bases = @ \cup ties]
        ELSE inc

NoSolution ==
    [status |-> "none", objective_value |-> Rat(0, 1), values |-> <<>>,
     dual_values |-> <<>>, reduced_costs |-> <<>>]

\* problem.solution after a solve that ended at basis bs
OptimalSolution(bs, c, b) ==
    LET x == Primal(bs, b)
    IN  [status          |-> "optimal",
         objective_value |-> Cost(bs, c, b),
         values          |-> [j \in Vars |-> Rat(x.xnum[j], x.den)],
         dual_values     |-> DualValues(bs, c),
         reduced_costs   |-> ReducedCosts(bs, c)]

-----
(* The script after model construction: the statements that touch the      *)
(* problem or read its solution, keyed by source line.                     *)

Ins(op, name, index, val) ==
    [op |-> op, name |-> name, index |-> index, val |-> val]

\* lines 92-130: first solve, SOLUTION and DUAL VALUES reports
BaseReport ==
    (92 :> Ins("solve", "", 0, 0))
    @@ (123 :> Ins("get_objective_value", "", 0, 0))
    @@ (125 :> Ins("for_get_values", "", 0, 0))
    @@ (130 :> Ins("for_get_dual_values", "", 0, 0))

\* mutant: c_1 moved the wrong way, to 2001
Mutant_RelaxC1_Tightened ==
    (142 :> Ins("get_objective_value", "", 0, 0))
    @@ (144 :> Ins("set_rhs", "c_1", 0, 2001))
    @@ (145 :> Ins("solve", "", 0, 0))
    @@ (146 :> Ins("get_objective_value", "", 0, 0))

\* mutant: the re-solve of line 145 left out
Mutant_RelaxC1_NoSolve ==
    (142 :> Ins("get_objective_value", "", 0, 0))
    @@ (144 :> Ins("set_rhs", "c_1", 0, 1999))
    @@ (146 :> Ins("get_objective_value", "", 0, 0))

\* lines 142-146: c_1 relaxed by one unit
RelaxC1 ==
    (142 :> Ins("get_objective_value", "", 0, 0))
    @@ (144 :> Ins("set_rhs", "c_1", 0, 1999))
    @@ (145 :> Ins("solve", "", 0, 0))
    @@ (146 :> Ins("get_objective_value", "", 0, 0))

\* mutant: line 156 edits c_1 instead of c_2
Mutant_RelaxC2C3_WrongRow ==
    (153 :> Ins("get_objective_value", "", 0, 0))
    @@ (156 :> Ins("set_rhs", "c_1", 0, 54))
    @@ (157 :> Ins("set_rhs", "c_3", 0, 799))
    @@ (158 :> Ins("solve", "", 0, 0))
    @@ (159 :> Ins("get_objective_value", "", 0, 0))

\* lines 153-159: c_2 and c_3 relaxed by one unit
RelaxC2C3 ==
    (153 :> Ins("get_objective_value", "", 0, 0))
    @@ (156 :> Ins("set_rhs", "c_2", 0, 54))
    @@ (157 :> Ins("set_rhs", "c_3", 0, 799))
    @@ (158 :> Ins("solve", "", 0, 0))
    @@ (159 :> Ins("get_objective_value", "", 0, 0))

\* mutant: c_1 left at 1999
Mutant_RestoreRhs_StaleC1 ==
    (169 :> Ins("set_rhs", "c_1", 0, 1999))
    @@ (170 :> Ins("set_rhs", "c_2", 0, 55))
    @@ (171 :> Ins("set_rhs", "c_3", 0, 800))
    @@ (172 :> Ins("solve", "", 0, 0))

\* mutant: the restore of c_3 left out
Mutant_RestoreRhs_SkipC3 ==
    (169 :> Ins("set_rhs", "c_1", 0, 2000))
    @@ (170 :> Ins("set_rhs", "c_2", 0, 55))
    @@ (172 :> Ins("solve", "", 0, 0))

\* lines 169-172: the constraints restored
RestoreRhs ==
    (169 :> Ins("set_rhs", "c_1", 0, 2000))
    @@ (170 :> Ins("set_rhs", "c_2", 0, 55))
    @@ (171 :> Ins("set_rhs", "c_3", 0, 800))
    @@ (172 :> Ins("solve", "", 0, 0))

\* lines 175-199: REDUCED COSTS report and the x_3 figures before the edit
ReducedReport ==
    (176 :> Ins("for_get_reduced_costs", "", 0, 0))
    @@ (196 :> Ins("get_objective_value", "", 0, 0))
    @@ (197 :> Ins("get_values", "", 2, 0))
    @@ (199 :> Ins("get_reduced_costs", "", 2, 0))

\* mutant: x_3's coefficient improved by 3 only, to 10
Mutant_ImproveX3_By3 ==
    (200 :> Ins("set_linear", "x_3", 0, 10))
    @@ (201 :> Ins("solve", "", 0, 0))
    @@ (202 :> Ins("get_objective_value", "", 0, 0))
    @@ (203 :> Ins("get_values", "", 2, 0))
    @@ (205 :> Ins("get_reduced_costs", "", 2, 0))

\* lines 200-205: x_3's objective coefficient improved by 5
ImproveX3 ==
    (200 :> Ins("set_linear", "x_3", 0, 8))
    @@ (201 :> Ins("solve", "", 0, 0))
    @@ (202 :> Ins("get_objective_value", "", 0, 0))
    @@ (203 :> Ins("get_values", "", 2, 0))
    @@ (205 :> Ins("get_reduced_costs", "", 2, 0))

Script ==
    BaseReport @@ RelaxC1 @@ RelaxC2C3 @@ RestoreRhs @@ ReducedReport @@ ImproveX3

\* the first statement of the script and the statement after line l;
\* 0 once the script has run off its end
FirstLine == CHOOSE l \in DOMAIN Script : \A m \in DOMAIN Script : l <= m

NextLine(l) ==
    LET later == {m \in DOMAIN Script : m > l}
    IN  IF later = {} THEN 0
        ELSE CHOOSE m \in later : \A n \in later : m <= n

Terminated == pc \notin DOMAIN Script

At(op) == pc \in DOMAIN Script /\ Script[pc].op = op

\* a line printed from the solution: the source line, the quantity read,
\* its 0-based index and its value
Printed(what, index, value) ==
    [line |-> pc, what |-> what, index |-> index, value |-> value]

----------------------------------------------------------------------------
Init ==
    /\ pc = FirstLine
    /\ i = 0
    /\ objective = v_objective_coefficients
    /\ rhs = c_rhs
    /\ cand = 0
    /\ best = NoIncumbent
    /\ solution = NoSolution
    /\ modified = FALSE
    /\ out = <<>>

\* the solver examines the basic solutions over one set of basic variables
SolveStep ==
    /\ At("solve")
    /\ cand < NumBasicSets
    /\ best' = Examine(best, BasicSet(cand), objective, rhs)
    /\ cand' = cand + 1
    /\ UNCHANGED <<pc, i, objective, rhs, solution, modified, out>>

\* every basic solution has been examined: solve() returns an optimal one,
\* or reports that there is none
SolveReturn ==
    /\ At("solve")
    /\ cand = NumBasicSets
    /\ IF best.found
       THEN \E bs \in best.bases :
               solution' = OptimalSolution(bs, objective, rhs)
       ELSE solution' = [NoSolution EXCEPT !.status = "infeasible"]
    /\ modified' = FALSE
    /\ cand' = 0
    /\ best' = NoIncumbent
    /\ pc' = NextLine(pc)
    /\ UNCHANGED <<i, objective, rhs, out>>

\* A read of problem.solution without an optimal solution makes the solver
\* raise, which ends the script.

\* problem.solution.get_objective_value()
GetObjectiveValue ==
    /\ At("get_objective_value")
    /\ IF solution.status = "optimal"
       THEN /\ out' = Append(out, Printed("objective_value", 0,
                                          solution.objective_value))
            /\ pc' = NextLine(pc)
       ELSE out' = out /\ pc' = 0
    /\ UNCHANGED <<i, objective, rhs, cand, best, solution, modified>>

\* problem.solution.get_values(k)
GetValues ==
    /\ At("get_values")
    /\ IF solution.status = "optimal"
       THEN /\ out' = Append(out, Printed("values", Script[pc].index,
                                  solution.values[Script[pc].index + 1]))
            /\ pc' = NextLine(pc)
       ELSE out' = out /\ pc' = 0
    /\ UNCHANGED <<i, objective, rhs, cand, best, solution, modified>>

\* problem.solution.get_reduced_costs(k)
GetReducedCosts ==
    /\ At("get_reduced_costs")
    /\ IF solution.status = "optimal"
       THEN /\ out' = Append(out, Printed("reduced_costs", Script[pc].index,
                                  solution.reduced_costs[Script[pc].index + 1]))
            /\ pc' = NextLine(pc)
       ELSE out' = out /\ pc' = 0
    /\ UNCHANGED <<i, objective, rhs, cand, best, solution, modified>>

\* one iteration of `for i in range(n): print(... field(i))`, or its exit
ForLoop(n, what, field) ==
    /\ IF i >= n
       THEN out' = out /\ i' = 0 /\ pc' = NextLine(pc)
       ELSE IF solution.status = "optimal"
       THEN out' = Append(out, Printed(what, i, field[i + 1]))
            /\ i' = i + 1 /\ pc' = pc
       ELSE out' = out /\ i' = 0 /\ pc' = 0
    /\ UNCHANGED <<objective, rhs, cand, best, solution, modified>>

\* lines 124-126
ForGetValues ==
    /\ At("for_get_values")
    /\ ForLoop(NumVars, "values", solution.values)

\* lines 129-130
ForGetDualValues ==
    /\ At("for_get_dual_values")
    /\ ForLoop(NumRows, "dual_values", solution.dual_values)

\* lines 175-176
ForGetReducedCosts ==
    /\ At("for_get_reduced_costs")
    /\ ForLoop(NumVars, "reduced_costs", solution.reduced_costs)

\* problem.linear_constraints.set_rhs(name, val)
SetRhs ==
    /\ At("set_rhs")
    /\ rhs' = [rhs EXCEPT ![IndexOf(c_names, Script[pc].name)] = Script[pc].val]
    /\ modified' = TRUE
    /\ pc' = NextLine(pc)
    /\ UNCHANGED <<i, objective, cand, best, solution, out>>

\* problem.objective.set_linear(name, val)
SetLinear ==
    /\ At("set_linear")
    /\ objective' = [objective EXCEPT
                        ![IndexOf(v_names, Script[pc].name)] = Script[pc].val]
    /\ modified' = TRUE
    /\ pc' = NextLine(pc)
    /\ UNCHANGED <<i, rhs, cand, best, solution, out>>

Next ==
    \/ SolveStep
    \/ SolveReturn
    \/ GetObjectiveValue
    \/ ForGetValues
    \/ ForGetDualValues
    \/ GetValues
    \/ GetReducedCosts
    \/ ForGetReducedCosts
    \/ SetRhs
    \/ SetLinear

Spec == Init /\ [][Next]_vars

----------------------------------------------------------------------------
(* Properties.  A printed quantity is identified by the source line that   *)
(* printed it; decimal literals are written as fractions of a power of 10. *)

Zero == Rat(0, 1)

\* p - q
RatSub(p, q) == Rat(p[1] * q[2] - q[1] * p[2], p[2] * q[2])

\* the statements that read problem.solution
ReadOps ==
    {"get_objective_value", "get_values", "get_reduced_costs",
     "for_get_values", "for_get_dual_values", "for_get_reduced_costs"}

\* C1 as stated: the objective value printed after the first solve
\* (line 123) is 91.0.
C1_FirstObjectiveIs91 ==
    \A k \in DOMAIN out : out[k].line = 123 => out[k].value = Rat(910, 10)

\* C1 as amended: the objective value printed after the first solve
\* (line 123) is 92.5.
C1_FirstObjectiveIs92_5 ==
    \A k \in DOMAIN out : out[k].line = 123 => out[k].value = Rat(925, 10)

C1_Witness ==
    \E k \in DOMAIN out : out[k].line = 123 /\ out[k].what = "objective_value"

\* C2: the dual values printed for the base model (line 130) are 0.05625
\* for c_1 and 0 for c_2 and c_3.
C2_BaseDualValues ==
    \A k \in DOMAIN out :
        out[k].line = 130 =>
            out[k].value = IF out[k].index = 0 THEN Rat(5625, 100000) ELSE Zero

C2_Witness ==
    \A r \in 0..(NumRows - 1) :
        \E k \in DOMAIN out : out[k].line = 130 /\ out[k].index = r

\* C3 as stated: with c_1 at 1999 the objective value printed at line 146
\* is the one printed before the edit (line 142) minus 0.05625, and it is
\* 91.0 - 0.05625 = 90.94375.
C3_RelaxedObjectiveIs90_94375 ==
    \A k, m \in DOMAIN out :
        (out[k].line = 146 /\ out[m].line = 142) =>
            /\ out[k].value = RatSub(out[m].value, Rat(5625, 100000))
            /\ out[k].value = Rat(9094375, 100000)

\* C3 as amended: with c_1 at 1999 the objective value printed at line 146
\* is the one printed before the edit (line 142) minus 0.05625, and it is
\* 92.5 - 0.05625 = 92.44375.
C3_RelaxedObjectiveIs92_44375 ==
    \A k, m \in DOMAIN out :
        (out[k].line = 146 /\ out[m].line = 142) =>
            /\ out[k].value = RatSub(out[m].value, Rat(5625, 100000))
            /\ out[k].value = Rat(9244375, 100000)

C3_Witness ==
    /\ \E k \in DOMAIN out : out[k].line = 146
    /\ \E m \in DOMAIN out : out[m].line = 142
    /\ rhs = <<1999, 55, 800>>

\* C4 as stated: the objective value printed after c_2 and c_3 are lowered
\* (line 159) equals the one of the preceding solve (line 153), and it is
\* 91.0, the base model's optimal value (line 123).
C4_UnchangedAndBaseValue91 ==
    \A k, m, n \in DOMAIN out :
        (out[k].line = 159 /\ out[m].line = 153 /\ out[n].line = 123) =>
            /\ out[k].value = out[m].value
            /\ out[k].value = Rat(910, 10)
            /\ out[k].value = out[n].value

\* C4 as amended: the objective value printed after c_2 and c_3 are lowered
\* (line 159) equals the one of the preceding solve (line 153); c_1 is
\* still 1999 at that solve, and the value is 92.44375.
C4_UnchangedAt92_44375 ==
    /\ \A k, m \in DOMAIN out :
          (out[k].line = 159 /\ out[m].line = 153) =>
              /\ out[k].value = out[m].value
              /\ out[k].value = Rat(9244375, 100000)
    /\ pc = 159 => rhs = <<1999, 54, 799>>

C4_Witness ==
    /\ \E k \in DOMAIN out : out[k].line = 159
    /\ \E m \in DOMAIN out : out[m].line = 153
    /\ rhs = <<1999, 54, 799>>

\* C5: at the base optimum re-solved at line 172, x_3 has value 0 (line
\* 197) and reduced cost 4 (line 199, and line 176 for index 2).
C5_X3ValueAndReducedCost ==
    \A k \in DOMAIN out :
        /\ out[k].line = 197 => out[k].value = Zero
        /\ out[k].line = 199 => out[k].value = Rat(4, 1)
        /\ (out[k].line = 176 /\ out[k].index = 2) => out[k].value = Rat(4, 1)

C5_Witness ==
    /\ \E k \in DOMAIN out : out[k].line = 197 /\ out[k].index = 2
    /\ \E k \in DOMAIN out : out[k].line = 199 /\ out[k].index = 2
    /\ \E k \in DOMAIN out : out[k].line = 176 /\ out[k].index = 2

\* C6: with x_3's coefficient at 8, x_3's value (line 203) is strictly
\* positive and the objective value (line 202) is strictly less than 91.0
\* and than the objective value before the edit (line 196).
C6_X3EntersAndObjectiveDrops ==
    \A k \in DOMAIN out :
        /\ out[k].line = 203 => RatLess(Zero, out[k].value)
        /\ out[k].line = 202 =>
              /\ RatLess(out[k].value, Rat(910, 10))
              /\ \A m \in DOMAIN out :
                    out[m].line = 196 => RatLess(out[k].value, out[m].value)

C6_Witness ==
    /\ \E k \in DOMAIN out : out[k].line = 203
    /\ \E k \in DOMAIN out : out[k].line = 202
    /\ objective[IndexOf(v_names, "x_3")] = 8

\* C7: the objective value of the re-solve at line 172 (printed at line
\* 196), after the right-hand sides went to 1999/54/799 and back, equals
\* the objective value of the first solve (printed at line 123).
C7_RoundTripObjective ==
    /\ \A k, m \in DOMAIN out :
          (out[k].line = 196 /\ out[m].line = 123) => out[k].value = out[m].value
    /\ pc = 176 => solution.objective_value = out[1].value

C7_Witness ==
    /\ \E k \in DOMAIN out : out[k].line = 196
    /\ \E m \in DOMAIN out : out[m].line = 159
    /\ out[1].line = 123
    /\ rhs = c_rhs

\* C8: while the script reports reduced costs (after the solves of lines
\* 172 and 201), every variable whose value is zero has a strictly positive
\* reduced cost and every variable whose value is nonzero has reduced
\* cost zero.
C8_ReducedCostSigns ==
    (pc \in {176, 196, 197, 199, 202, 203, 205} /\ solution.status = "optimal") =>
        \A j \in Vars :
            IF solution.values[j] = Zero
            THEN RatLess(Zero, solution.reduced_costs[j])
            ELSE solution.reduced_costs[j] = Zero

\* C9 as stated: when the script has terminated, every right-hand side and
\* every objective coefficient has its original value.
C9_AllRestoredAtEnd ==
    Terminated => (rhs = c_rhs /\ objective = v_objective_coefficients)

\* C9 as amended: when the script has terminated, every right-hand side
\* has its original value and so has every objective coefficient except
\* x_3's, which is 8.
C9_RhsRestoredX3Left ==
    Terminated =>
        /\ rhs = c_rhs
        /\ objective = [v_objective_coefficients EXCEPT ![3] = 8]

C9_Witness == Terminated /\ out # <<>> /\ out[Len(out)].line = 205

\* C10: whenever the script is at a statement that reads a solution
\* quantity, a solve has completed with an optimal solution and the
\* problem has not been edited since.
C10_ReadsFollowSolve ==
    (pc \in DOMAIN Script /\ Script[pc].op \in ReadOps) =>
        (solution.status = "optimal" /\ ~modified)

C10_Witness ==
    /\ pc = 146
    /\ rhs # c_rhs
    /\ ~modified

====
